---- MODULE Spec2Model ----
(***************************************************************************)
(* GitHub -> Discord webhook relay (main.go).                              *)
(*                                                                         *)
(* One goroutine per inbound POST /webhook/github request runs             *)
(* handleGitHubWebhook.  The model follows that handler statement by       *)
(* statement: GetHeader + io.ReadAll, json.Unmarshal, the switch on the    *)
(* event type, the two event handlers, sendDiscordMessage (json.Marshal,   *)
(* the blocking http.Post and its return) and the final c.JSON(200).       *)
(* Requests interleave freely between these steps.                         *)
(*                                                                         *)
(* The payload fields the handlers only copy into the notification text    *)
(* (sender, repository, PR number/title/url, workflow name/url) take part  *)
(* in no decision and are left out; the fields every branch reads          *)
(* (action, pull_request.merged, workflow_run.conclusion) and one field    *)
(* no branch reads (workflow_run.status) are kept.                         *)
(***************************************************************************)
EXTENDS Integers, Sequences, FiniteSets, TLC

VARIABLES
    developmentChannelWebhook,  \* package variable, main.go:72
    testingChannelWebhook,      \* package variable, main.go:73
    pc,          \* pc[r]: where request r's goroutine stands in the handler
    reqHeader,   \* reqHeader[r]: the X-GitHub-Event header as sent (or NoHeader)
    reqBody,     \* reqBody[r]: the request body as sent
    eventType,   \* eventType[r]: local of handleGitHubWebhook
    event,       \* event[r]: the decoded GitHubEvent
    webhookURL,  \* webhookURL[r]: parameter of sendDiscordMessage
    message,     \* message[r]: the DiscordMessage built by a handler
    outbound,    \* outbound[r]: the http.Post calls made for r, in order
    status       \* status[r]: the response status written for r (0: none yet)

vars == <<developmentChannelWebhook, testingChannelWebhook, pc, reqHeader,
          reqBody, eventType, event, webhookURL, message, outbound, status>>

(***************************************************************************)
(* Bounds.                                                                 *)
(***************************************************************************)
\* Number of requests in flight at the same time.
NumRequests == 2

Requests == 1..NumRequests

(***************************************************************************)
(* Process configuration: the two environment values main() reads.  Both   *)
(* are non-empty once the server runs (main.go:86-88).  The two channels    *)
(* are configured with different addresses.                                *)
(***************************************************************************)
DevUrl  == "https://discord.example/api/webhooks/dev"
TestUrl == "https://discord.example/api/webhooks/test"

(***************************************************************************)
(* Inbound requests.                                                       *)
(***************************************************************************)
NoHeader == "<no header>"
Absent   == "<absent>"      \* a key the JSON object does not carry

Headers == {NoHeader, "pull_request", "workflow_run", "push"}

JsonActions == {Absent, "", "opened", "reopened", "ready_for_review",
                "closed", "completed", "queued"}
JsonMerged  == {Absent, "true", "false"}
JsonConclusions == {Absent, "success", "failure", "cancelled", "skipped",
                    "neutral"}
\* workflow_run.status / workflow_run.conclusion as GitHub pairs them, plus
\* pairs GitHub would not send.
JsonRuns ==
    [status : {"completed"}, conclusion : JsonConclusions]
      \cup { [status |-> "queued",      conclusion |-> Absent],
             [status |-> "in_progress", conclusion |-> Absent],
             [status |-> "queued",      conclusion |-> "success"] }

Body(k, a, m, run) ==
    [kind |-> k, action |-> a, merged |-> m,
     status |-> run.status, conclusion |-> run.conclusion]

NoRun == [status |-> Absent, conclusion |-> Absent]

\* kind "read_error":  the body cannot be read (io.ReadAll fails)
\* kind "malformed":   not valid JSON
\* kind "wrong_type":  valid JSON that does not fit GitHubEvent, e.g. []
\* kind "null":        the JSON value null
\* kind "object":      a JSON object carrying some of the keys
\* Objects GitHub sends: with a pull_request object, with a workflow_run
\* object, with neither; and one that carries both.
ObjectBodies ==
    { Body("object", a, m, NoRun) : a \in JsonActions, m \in JsonMerged }
      \cup { Body("object", a, Absent, run) : a \in JsonActions, run \in JsonRuns }
      \cup { Body("object", a, "true",
                  [status |-> "completed", conclusion |-> "success"]) :
                a \in JsonActions }

OtherBodies ==
    { Body(k, Absent, Absent, NoRun) :
        k \in {"read_error", "malformed", "wrong_type", "null"} }

Bodies == ObjectBodies \cup OtherBodies

AllInputs == Headers \X Bodies

\* The traffic that runs next to the request under observation: a
\* pull request being opened, and a body that is not JSON.
BackgroundInputs ==
    { <<"pull_request", Body("object", "opened", Absent, NoRun)>>,
      <<"workflow_run", Body("malformed", Absent, Absent, NoRun)>> }

\* Request 1 ranges over every input; the others are background traffic.
Inputs(r) == IF r = 1 THEN AllInputs ELSE BackgroundInputs

\* One request of each course the handler can take: rejected, not routed,
\* dropped by a handler, posted by either handler.
ScenarioInputs ==
    { <<"pull_request", Body("object", "opened", Absent, NoRun)>>,
      <<"pull_request", Body("object", "closed", "false", NoRun)>>,
      <<"workflow_run", Body("object", "completed", Absent,
                             [status |-> "completed", conclusion |-> "failure"])>>,
      <<"push",         Body("object", Absent, Absent, NoRun)>>,
      <<"pull_request", Body("malformed", Absent, Absent, NoRun)>> }

(***************************************************************************)
(* Library functions, by what they do on these values.                     *)
(***************************************************************************)
\* gin's c.GetHeader: the header's value, "" when the header is absent.
GetHeader(h) == IF h = NoHeader THEN "" ELSE h

\* io.ReadAll(c.Request.Body): err != nil
ReadAllErr(b) == b.kind = "read_error"

\* Variant: a decoder that reports only type errors and lets a body that
\* is not JSON through as an empty event.
UnmarshalErrTypeOnly(b) == b.kind = "wrong_type"

\* json.Unmarshal(body, &event): err != nil.  Invalid JSON is a SyntaxError,
\* a JSON value of another shape than the struct an UnmarshalTypeError;
\* null and objects decode.
UnmarshalErr(b) == b.kind \in {"malformed", "wrong_type"}

\* A string field after decoding: the zero value "" when the key is absent.
StringField(v) == IF v = Absent THEN "" ELSE v

\* A bool field after decoding: false when the key is absent.
BoolField(v) == v = "true"

\* The zero value of GitHubEvent (var event GitHubEvent).
ZeroEvent ==
    [Action |-> "",
     PullRequest |-> [Merged |-> FALSE],
     WorkflowRun |-> [Status |-> "", Conclusion |-> ""]]

\* json.Unmarshal(body, &event): the event it leaves in `event` on success.
\* null leaves the zero value untouched.
Unmarshal(b) ==
    IF b.kind = "object"
    THEN [Action |-> StringField(b.action),
          PullRequest |-> [Merged |-> BoolField(b.merged)],
          WorkflowRun |-> [Status |-> StringField(b.status),
                           Conclusion |-> StringField(b.conclusion)]]
    ELSE ZeroEvent

\* json.Marshal(message): err != nil.  A DiscordMessage holds only strings,
\* ints, bools and slices of structs of these, which encoding/json always
\* encodes (invalid UTF-8 is replaced, not rejected).
MarshalErr(m) == FALSE

\* What http.Post can come back with: a transport error, or a response.
PostResults ==
    { [err |-> TRUE,  StatusCode |-> 0],
      [err |-> FALSE, StatusCode |-> 204],
      [err |-> FALSE, StatusCode |-> 500] }

\* The line sendDiscordMessage logs for a result of http.Post.
PostLog(res) ==
    IF res.err THEN "Error sending Discord message"
    ELSE IF res.StatusCode < 200 \/ res.StatusCode >= 300
         THEN "Discord API error"
         ELSE "Discord message sent successfully"

(***************************************************************************)
(* handlePullRequestEvent, the decisions.                                  *)
(***************************************************************************)
actionsToProcess == {"opened", "reopened", "ready_for_review", "closed"}

\* Variant: the closed-without-merge check is missing.
PullRequestIgnoredUnlistedOnly(ev) == ev.Action \notin actionsToProcess

\* TRUE when handlePullRequestEvent returns without building a message.
PullRequestIgnored(ev) ==
    \/ ev.Action \notin actionsToProcess
    \/ ev.Action = "closed" /\ ~ev.PullRequest.Merged

\* Variant: purple for every merged pull request, whatever the action.
PullRequestColorAnyMerged(ev) ==
    IF ev.PullRequest.Merged THEN \H6E48CD ELSE \H1D82F7

PullRequestColor(ev) ==
    IF ev.Action = "closed" /\ ev.PullRequest.Merged
    THEN \H6E48CD
    ELSE \H1D82F7

actionDesc(ev) ==
    IF ev.Action = "closed" /\ ev.PullRequest.Merged
    THEN "merged"
    ELSE ev.Action

PullRequestMessage(ev) ==
    [Title |-> "Pull Request " \o actionDesc(ev),
     Color |-> PullRequestColor(ev)]

(***************************************************************************)
(* handleWorkflowRunEvent, the decisions.                                  *)
(***************************************************************************)
\* Variant: filters on the run's status instead of the event's action.
WorkflowRunIgnoredByStatus(ev) == ev.WorkflowRun.Status # "completed"

WorkflowRunIgnored(ev) == ev.Action # "completed"

\* Variant: the colors of cancelled and skipped exchanged, and no case
\* for failure.
WorkflowRunColorMixedUp(conclusion) ==
    CASE conclusion = "success"   -> \H2ECC71
      [] conclusion = "cancelled" -> \H95A5A6
      [] conclusion = "skipped"   -> \HF39C12
      [] OTHER                    -> \HE6E6E6

WorkflowRunColor(conclusion) ==
    CASE conclusion = "success"   -> \H2ECC71
      [] conclusion = "failure"   -> \HE74C3C
      [] conclusion = "cancelled" -> \HF39C12
      [] conclusion = "skipped"   -> \H95A5A6
      [] OTHER                    -> \HE6E6E6

WorkflowRunMessage(ev) ==
    [Title |-> "Workflow Run " \o ev.WorkflowRun.Conclusion,
     Color |-> WorkflowRunColor(ev.WorkflowRun.Conclusion)]

NoMessage == [Title |-> "", Color |-> 0]

NoBody == Body("none", Absent, Absent, NoRun)

(***************************************************************************)
(* State after main() has read the configuration and started the router.   *)
(***************************************************************************)
Init ==
    /\ developmentChannelWebhook = DevUrl
    /\ testingChannelWebhook = TestUrl
    /\ pc = [r \in Requests |-> "idle"]
    /\ reqHeader = [r \in Requests |-> NoHeader]
    /\ reqBody = [r \in Requests |-> NoBody]
    /\ eventType = [r \in Requests |-> ""]
    /\ event = [r \in Requests |-> ZeroEvent]
    /\ webhookURL = [r \in Requests |-> ""]
    /\ message = [r \in Requests |-> NoMessage]
    /\ outbound = [r \in Requests |-> <<>>]
    /\ status = [r \in Requests |-> 0]

config == <<developmentChannelWebhook, testingChannelWebhook>>

(***************************************************************************)
(* handleGitHubWebhook                                                     *)
(***************************************************************************)
\* Request r arrives with header h and body b; the handler reads the header
\* and the body.  A body that cannot be read is answered 400.
Receive(r, h, b) ==
    /\ pc[r] = "idle"
    /\ reqHeader' = [reqHeader EXCEPT ![r] = h]
    /\ reqBody' = [reqBody EXCEPT ![r] = b]
    /\ eventType' = [eventType EXCEPT ![r] = GetHeader(h)]
    /\ IF ReadAllErr(b)
       THEN /\ status' = [status EXCEPT ![r] = 400]
            /\ pc' = [pc EXCEPT ![r] = "done"]
       ELSE /\ status' = status
            /\ pc' = [pc EXCEPT ![r] = "Unmarshal"]
    /\ UNCHANGED <<config, event, webhookURL, message, outbound>>

ReadRequest(r) == \E in \in Inputs(r) : Receive(r, in[1], in[2])

ReadScenarioRequest(r) == \E in \in ScenarioInputs : Receive(r, in[1], in[2])

\* json.Unmarshal(body, &event); a failure is answered 400.
ParseEvent(r) ==
    /\ pc[r] = "Unmarshal"
    /\ IF UnmarshalErr(reqBody[r])
       THEN /\ status' = [status EXCEPT ![r] = 400]
            /\ pc' = [pc EXCEPT ![r] = "done"]
            /\ event' = event
       ELSE /\ event' = [event EXCEPT ![r] = Unmarshal(reqBody[r])]
            /\ pc' = [pc EXCEPT ![r] = "switch"]
            /\ status' = status
    /\ UNCHANGED <<config, reqHeader, reqBody, eventType, webhookURL,
                   message, outbound>>

\* Variant: the default case falls into the pull-request handler.
RouteDefaultPullRequest(t) ==
    CASE t = "workflow_run" -> "handleWorkflowRunEvent"
      [] OTHER              -> "handlePullRequestEvent"

\* The handler the switch on eventType calls ("respond": none).
Route(t) ==
    CASE t = "pull_request" -> "handlePullRequestEvent"
      [] t = "workflow_run" -> "handleWorkflowRunEvent"
      [] OTHER              -> "respond"

\* switch eventType
ProcessEventType(r) ==
    /\ pc[r] = "switch"
    /\ pc' = [pc EXCEPT ![r] = Route(eventType[r])]
    /\ UNCHANGED <<config, reqHeader, reqBody, eventType, event, webhookURL,
                   message, outbound, status>>

\* Variant: the answer reports a failed delivery as 502.
RespondDeliveryStatus(r) ==
    /\ pc[r] = "respond"
    /\ status' = [status EXCEPT
                    ![r] = IF /\ outbound[r] # <<>>
                              /\ outbound[r][Len(outbound[r])].log
                                    # "Discord message sent successfully"
                           THEN 502
                           ELSE 200]
    /\ pc' = [pc EXCEPT ![r] = "done"]
    /\ UNCHANGED <<config, reqHeader, reqBody, eventType, event, webhookURL,
                   message, outbound>>

\* c.JSON(200, ...)
RespondSuccess(r) ==
    /\ pc[r] = "respond"
    /\ status' = [status EXCEPT ![r] = 200]
    /\ pc' = [pc EXCEPT ![r] = "done"]
    /\ UNCHANGED <<config, reqHeader, reqBody, eventType, event, webhookURL,
                   message, outbound>>

(***************************************************************************)
(* handlePullRequestEvent: filter, build the message, call                 *)
(* sendDiscordMessage with the development channel.                        *)
(***************************************************************************)
handlePullRequestEvent(r) ==
    /\ pc[r] = "handlePullRequestEvent"
    /\ IF PullRequestIgnored(event[r])
       THEN /\ pc' = [pc EXCEPT ![r] = "respond"]
            /\ UNCHANGED <<message, webhookURL>>
       ELSE /\ message' = [message EXCEPT ![r] = PullRequestMessage(event[r])]
            /\ webhookURL' = [webhookURL EXCEPT ![r] = developmentChannelWebhook]
            /\ pc' = [pc EXCEPT ![r] = "sendDiscordMessage"]
    /\ UNCHANGED <<config, reqHeader, reqBody, eventType, event, outbound,
                   status>>

\* Variant: the handler keeps the channel to use in a package variable
\* instead of passing it on.
handleWorkflowRunEventSharedChannel(r) ==
    /\ pc[r] = "handleWorkflowRunEvent"
    /\ IF WorkflowRunIgnored(event[r])
       THEN /\ pc' = [pc EXCEPT ![r] = "respond"]
            /\ UNCHANGED <<message, webhookURL, config>>
       ELSE /\ message' = [message EXCEPT ![r] = WorkflowRunMessage(event[r])]
            /\ developmentChannelWebhook' = testingChannelWebhook
            /\ testingChannelWebhook' = testingChannelWebhook
            /\ webhookURL' = [webhookURL EXCEPT ![r] = testingChannelWebhook]
            /\ pc' = [pc EXCEPT ![r] = "sendDiscordMessage"]
    /\ UNCHANGED <<reqHeader, reqBody, eventType, event, outbound, status>>

(***************************************************************************)
(* handleWorkflowRunEvent: filter, build the message, call                 *)
(* sendDiscordMessage with the testing channel.                            *)
(***************************************************************************)
handleWorkflowRunEvent(r) ==
    /\ pc[r] = "handleWorkflowRunEvent"
    /\ IF WorkflowRunIgnored(event[r])
       THEN /\ pc' = [pc EXCEPT ![r] = "respond"]
            /\ UNCHANGED <<message, webhookURL>>
       ELSE /\ message' = [message EXCEPT ![r] = WorkflowRunMessage(event[r])]
            /\ webhookURL' = [webhookURL EXCEPT ![r] = testingChannelWebhook]
            /\ pc' = [pc EXCEPT ![r] = "sendDiscordMessage"]
    /\ UNCHANGED <<config, reqHeader, reqBody, eventType, event, outbound,
                   status>>

(***************************************************************************)
(* sendDiscordMessage                                                      *)
(***************************************************************************)
\* One http.Post call: where to, what, and how it came back.
PostCall(url, m) ==
    [url |-> url, Title |-> m.Title, Color |-> m.Color,
     returned |-> FALSE, err |-> FALSE, StatusCode |-> 0, log |-> ""]

\* Variant: the delivery is started in a goroutine of its own
\* (go http.Post(...)) and the handler goes on without waiting for it.
sendDiscordMessageAsync(r) ==
    /\ pc[r] = "sendDiscordMessage"
    /\ outbound' = [outbound EXCEPT
                      ![r] = Append(@, PostCall(webhookURL[r], message[r]))]
    /\ pc' = [pc EXCEPT ![r] = "respond"]
    /\ UNCHANGED <<config, reqHeader, reqBody, eventType, event, webhookURL,
                   message, status>>

\* json.Marshal, then the call of http.Post, which blocks the goroutine.
sendDiscordMessage(r) ==
    /\ pc[r] = "sendDiscordMessage"
    /\ IF MarshalErr(message[r])
       THEN /\ pc' = [pc EXCEPT ![r] = "respond"]
            /\ outbound' = outbound
       ELSE /\ outbound' = [outbound EXCEPT
                              ![r] = Append(@, PostCall(webhookURL[r], message[r]))]
            /\ pc' = [pc EXCEPT ![r] = "http.Post"]
    /\ UNCHANGED <<config, reqHeader, reqBody, eventType, event, webhookURL,
                   message, status>>

\* Variant: a delivery that failed is tried a second time.
PostReturnsRetry(r) ==
    /\ pc[r] = "http.Post"
    /\ \E res \in PostResults :
         /\ outbound' = [outbound EXCEPT
                           ![r][Len(outbound[r])] =
                               [@ EXCEPT !.returned = TRUE,
                                         !.err = res.err,
                                         !.StatusCode = res.StatusCode,
                                         !.log = PostLog(res)]]
         /\ pc' = [pc EXCEPT
                     ![r] = IF /\ PostLog(res) # "Discord message sent successfully"
                               /\ Len(outbound[r]) < 2
                            THEN "sendDiscordMessage"
                            ELSE "respond"]
    /\ UNCHANGED <<config, reqHeader, reqBody, eventType, event, webhookURL,
                   message, status>>

\* http.Post returns; the outcome is logged and sendDiscordMessage returns.
PostReturns(r) ==
    /\ pc[r] = "http.Post"
    /\ \E res \in PostResults :
         outbound' = [outbound EXCEPT
                        ![r][Len(outbound[r])] =
                            [@ EXCEPT !.returned = TRUE,
                                      !.err = res.err,
                                      !.StatusCode = res.StatusCode,
                                      !.log = PostLog(res)]]
    /\ pc' = [pc EXCEPT ![r] = "respond"]
    /\ UNCHANGED <<config, reqHeader, reqBody, eventType, event, webhookURL,
                   message, status>>

(***************************************************************************)
(* The server: the goroutines of all requests, interleaved.                *)
(***************************************************************************)
Next ==
    \E r \in Requests :
        \/ ReadRequest(r)
        \/ ParseEvent(r)
        \/ ProcessEventType(r)
        \/ handlePullRequestEvent(r)
        \/ handleWorkflowRunEvent(r)
        \/ sendDiscordMessage(r)
        \/ PostReturns(r)
        \/ RespondSuccess(r)

Spec == Init /\ [][Next]_vars

\* The same server with every request drawn from the scenarios.
ScenarioNext ==
    \E r \in Requests :
        \/ ReadScenarioRequest(r)
        \/ ParseEvent(r)
        \/ ProcessEventType(r)
        \/ handlePullRequestEvent(r)
        \/ handleWorkflowRunEvent(r)
        \/ sendDiscordMessage(r)
        \/ PostReturns(r)
        \/ RespondSuccess(r)

\* A goroutine that can take a step of its own takes it; http.Post alone
\* depends on the network and may block for ever (the default client has
\* no timeout).
Fairness ==
    \A r \in Requests :
        /\ WF_vars(ParseEvent(r))
        /\ WF_vars(ProcessEventType(r))
        /\ WF_vars(handlePullRequestEvent(r))
        /\ WF_vars(handleWorkflowRunEvent(r))
        /\ WF_vars(sendDiscordMessage(r))
        /\ WF_vars(RespondSuccess(r))

FairSpec == Init /\ [][ScenarioNext]_vars /\ Fairness

(***************************************************************************)
(* Properties.  They speak of a request by what was sent (reqHeader,       *)
(* reqBody) and of what came of it (status, outbound).                     *)
(***************************************************************************)
Done(r) == pc[r] = "done"

\* The body decodes: it could be read and is JSON that fits the event.
Decodable(r) == reqBody[r].kind \in {"object", "null"}

\* The action / merged flag / conclusion a decodable body stands for.
SentAction(r) == IF reqBody[r].action = Absent THEN "" ELSE reqBody[r].action
SentMerged(r) == reqBody[r].merged = "true"
SentConclusion(r) ==
    IF reqBody[r].conclusion = Absent THEN "" ELSE reqBody[r].conclusion

IsPullRequest(r) == reqHeader[r] = "pull_request" /\ Decodable(r)
IsWorkflowRun(r) == reqHeader[r] = "workflow_run" /\ Decodable(r)

\* Nothing was posted for r, and nothing is being posted.
NoDelivery(r) == outbound[r] = <<>>

\* Exactly one post was made for r: to url, with this title and color.
OneDelivery(r, url, title, color) ==
    /\ Len(outbound[r]) = 1
    /\ outbound[r][1].url = url
    /\ outbound[r][1].Title = title
    /\ outbound[r][1].Color = color

\* No post of r went to url.
NoneTo(r, url) == \A i \in 1..Len(outbound[r]) : outbound[r][i].url # url

----------------------------------------------------------------------------
\* C1: a request whose body is not valid JSON is answered 400, whatever its
\* X-GitHub-Event header, and no post to Discord is made for it.
C1_InvalidJsonRejected ==
    \A r \in Requests :
        reqBody[r].kind = "malformed" =>
            /\ NoDelivery(r)
            /\ status[r] \in {0, 400}
            /\ Done(r) => status[r] = 400

C1_Witness ==
    \E r \in Requests :
        /\ reqBody[r].kind = "malformed"
        /\ reqHeader[r] = "pull_request"
        /\ Done(r)
        /\ status[r] = 400

----------------------------------------------------------------------------
\* C2: a request whose body decodes is answered 200 and nothing else,
\* whether its delivery failed in transport, was answered non-2xx, succeeded
\* or was never attempted.
C2_DecodedAlways200 ==
    \A r \in Requests :
        Decodable(r) =>
            /\ status[r] \in {0, 200}
            /\ Done(r) => status[r] = 200

\* Two answered requests: one whose delivery was answered 500, one for
\* which no delivery was attempted.
C2_Witness ==
    \E r1, r2 \in Requests :
        /\ Decodable(r1) /\ Done(r1) /\ status[r1] = 200
        /\ Len(outbound[r1]) = 1
        /\ outbound[r1][1].StatusCode = 500
        /\ Decodable(r2) /\ Done(r2) /\ status[r2] = 200
        /\ outbound[r2] = <<>>

----------------------------------------------------------------------------
\* C3: a pull-request event with action opened, reopened or ready_for_review
\* gives exactly one post, to the development channel, titled
\* "Pull Request <action>" in color 0x1D82F7, whatever merged is; action closed
\* with merged=true gives exactly one post to the development channel titled
\* "Pull Request merged" in color 0x6E48CD.  Nothing goes to the testing
\* channel.
C3_PullRequestNotification ==
    \A r \in Requests :
        /\ ( /\ IsPullRequest(r)
             /\ SentAction(r) \in {"opened", "reopened", "ready_for_review"}
             /\ Done(r) )
           => /\ OneDelivery(r, developmentChannelWebhook,
                             "Pull Request " \o SentAction(r), \H1D82F7)
              /\ NoneTo(r, testingChannelWebhook)
        /\ ( /\ IsPullRequest(r)
             /\ SentAction(r) = "closed"
             /\ SentMerged(r)
             /\ Done(r) )
           => /\ OneDelivery(r, developmentChannelWebhook,
                             "Pull Request merged", \H6E48CD)
              /\ NoneTo(r, testingChannelWebhook)

\* An answered ready_for_review event of a pull request marked merged.
C3_Witness ==
    \E r \in Requests :
        /\ IsPullRequest(r) /\ Done(r)
        /\ SentAction(r) = "ready_for_review"
        /\ SentMerged(r)
        /\ Len(outbound[r]) = 1

----------------------------------------------------------------------------
\* C4: a pull-request event whose action is none of opened, reopened,
\* ready_for_review, closed (an absent action included), or is closed with
\* merged false, never gives a post, and is answered 200.
C4_PullRequestDropped ==
    \A r \in Requests :
        ( /\ IsPullRequest(r)
          /\ \/ SentAction(r) \notin {"opened", "reopened", "ready_for_review",
                                      "closed"}
             \/ SentAction(r) = "closed" /\ ~SentMerged(r) )
        => /\ NoDelivery(r)
           /\ Done(r) => status[r] = 200

C4_Witness ==
    \E r \in Requests :
        /\ IsPullRequest(r) /\ Done(r)
        /\ reqBody[r].action = "closed"
        /\ reqBody[r].merged = "false"
        /\ status[r] = 200

----------------------------------------------------------------------------
\* The color the workflow-run notification has for a conclusion.
ConclusionColor(c) ==
    IF c = "success" THEN \H2ECC71
    ELSE IF c = "failure" THEN \HE74C3C
    ELSE IF c = "cancelled" THEN \HF39C12
    ELSE IF c = "skipped" THEN \H95A5A6
    ELSE \HE6E6E6

\* C5: a workflow-run event with action completed gives exactly one post, to
\* the testing channel and not to the development channel, titled
\* "Workflow Run <conclusion>", in the color of its conclusion.
C5_WorkflowRunNotification ==
    \A r \in Requests :
        ( /\ IsWorkflowRun(r)
          /\ SentAction(r) = "completed"
          /\ Done(r) )
        => /\ OneDelivery(r, testingChannelWebhook,
                          "Workflow Run " \o SentConclusion(r),
                          ConclusionColor(SentConclusion(r)))
           /\ NoneTo(r, developmentChannelWebhook)

C5_Witness ==
    \E r \in Requests :
        /\ IsWorkflowRun(r) /\ Done(r)
        /\ SentAction(r) = "completed"
        /\ SentConclusion(r) = "cancelled"
        /\ Len(outbound[r]) = 1
        /\ outbound[r][1].Color = \HF39C12

----------------------------------------------------------------------------
\* C6: a workflow-run event with an action other than completed never gives
\* a post, whatever its run's status and conclusion are.
C6_WorkflowRunDropped ==
    \A r \in Requests :
        (IsWorkflowRun(r) /\ SentAction(r) # "completed") => NoDelivery(r)

\* An answered "queued" event whose run says completed / success.
C6_Witness ==
    \E r \in Requests :
        /\ IsWorkflowRun(r) /\ Done(r)
        /\ reqBody[r].action = "queued"
        /\ reqBody[r].status = "completed"
        /\ reqBody[r].conclusion = "success"

----------------------------------------------------------------------------
\* C7: a decodable request whose X-GitHub-Event header is neither
\* pull_request nor workflow_run (or is absent) enters no handler, gives no
\* post and is answered 200, whatever its body carries.
C7_UnknownTypeIgnored ==
    \A r \in Requests :
        ( /\ reqHeader[r] \notin {"pull_request", "workflow_run"}
          /\ Decodable(r) )
        => /\ pc[r] \notin {"handlePullRequestEvent", "handleWorkflowRunEvent",
                             "sendDiscordMessage", "http.Post"}
           /\ NoDelivery(r)
           /\ Done(r) => status[r] = 200

\* An answered request without the header whose body is that of a merged
\* pull request.
C7_Witness ==
    \E r \in Requests :
        /\ reqHeader[r] = NoHeader
        /\ Done(r)
        /\ reqBody[r].action = "closed"
        /\ reqBody[r].merged = "true"
        /\ status[r] = 200

----------------------------------------------------------------------------
\* C8: at most one post is made for a request, also when that post ends in
\* a transport error or a non-2xx answer.
C8_NoRetry ==
    \A r \in Requests : Len(outbound[r]) <= 1

\* An answered request whose post ended in a transport error.
C8_Witness ==
    \E r \in Requests :
        /\ Done(r)
        /\ Len(outbound[r]) = 1
        /\ outbound[r][1].err

----------------------------------------------------------------------------
\* The place of a step in the pipeline decode -> classify -> build -> send
\* -> acknowledge.
Stage(p) ==
    CASE p = "idle"                   -> 0
      [] p = "Unmarshal"              -> 1     \* decode
      [] p = "switch"                 -> 2     \* classify
      [] p = "handlePullRequestEvent" -> 3     \* build
      [] p = "handleWorkflowRunEvent" -> 3
      [] p = "sendDiscordMessage"     -> 4     \* send
      [] p = "http.Post"              -> 5
      [] p = "respond"                -> 6     \* acknowledge
      [] p = "done"                   -> 7

DeliveryReturned(r) ==
    /\ outbound[r] # <<>>
    /\ \A i \in 1..Len(outbound[r]) : outbound[r][i].returned

\* C9: a request only moves forward through decode, classify, build, send,
\* acknowledge; the 200 is written only when no post of the request is still
\* under way; and a request whose post has returned gets its 200.
C9_SequentialPipeline ==
    /\ [][\A r \in Requests : pc'[r] # pc[r] => Stage(pc'[r]) > Stage(pc[r])]_vars
    /\ [](\A r \in Requests :
            /\ status[r] = 200 =>
                 \A i \in 1..Len(outbound[r]) : outbound[r][i].returned
            /\ pc[r] = "http.Post" => status[r] = 0)
    /\ \A r \in Requests : DeliveryReturned(r) ~> (status[r] = 200)

C9_Witness ==
    \E r \in Requests :
        /\ DeliveryReturned(r)
        /\ status[r] = 200
        /\ Done(r)

----------------------------------------------------------------------------
\* What a request with header h and body b gives when the handler runs from
\* start to end with nothing else running: the status and, if a post is
\* made, its channel, title and color.
Alone(h, b) ==
    IF ReadAllErr(b) \/ UnmarshalErr(b)
    THEN [status |-> 400, posts |-> <<>>]
    ELSE LET ev == Unmarshal(b)
             t  == GetHeader(h)
         IN  [status |-> 200,
              posts |->
                 CASE t = "pull_request" /\ ~PullRequestIgnored(ev) ->
                        << <<"development", PullRequestMessage(ev)>> >>
                   [] t = "workflow_run" /\ ~WorkflowRunIgnored(ev) ->
                        << <<"testing", WorkflowRunMessage(ev)>> >>
                   [] OTHER -> <<>>]

\* The posts made for r, without their outcome.
Posts(r) ==
    [i \in 1..Len(outbound[r]) |->
        <<outbound[r][i].url,
          [Title |-> outbound[r][i].Title, Color |-> outbound[r][i].Color]>>]

\* The same for what the request gives alone, with the addresses the two
\* channels have.
AlonePosts(h, b) ==
    [i \in 1..Len(Alone(h, b).posts) |->
        <<IF Alone(h, b).posts[i][1] = "development"
          THEN developmentChannelWebhook
          ELSE testingChannelWebhook,
          Alone(h, b).posts[i][2]>>]

\* C10: no step of any request changes the two channel addresses, and under
\* every interleaving an answered request has the status and the post its
\* own header and body give when it runs alone.
C10_RequestsIndependent ==
    /\ [][UNCHANGED config]_vars
    /\ [](\A r \in Requests :
            Done(r) =>
               /\ status[r] = Alone(reqHeader[r], reqBody[r]).status
               /\ Posts(r) = AlonePosts(reqHeader[r], reqBody[r]))

\* A workflow-run request answered after its post while the post of a
\* pull-request request is still under way.
C10_Witness ==
    \E r1, r2 \in Requests :
        /\ r1 # r2
        /\ Done(r1)
        /\ reqHeader[r1] = "workflow_run" /\ Len(outbound[r1]) = 1
        /\ reqHeader[r2] = "pull_request" /\ pc[r2] = "http.Post"

====
